---- MODULE Spec2Model ----
(***************************************************************************)
(* Model of the web implementation of the node-web-compatibility layer of  *)
(* aws-jwt-verify (src/src/node-web-compat-web.ts): the fetch transport,   *)
(* the JWK -> CryptoKey transformation, the signature verification         *)
(* dispatch and the base64url decoder.                                     *)
(*                                                                         *)
(* JavaScript strings are TLA+ strings (Len, SubSeq and \o apply to them), *)
(* Uint8Array contents are sequences of integers in 0..255.  A behaviour   *)
(* follows one call from the state in which nothing has been called: a     *)
(* fetch, a key transformation and the verification that uses its key, or  *)
(* a codec operation. The calls share no state.                            *)
(***************************************************************************)
EXTENDS Integers, Sequences, FiniteSets, TLC

VARIABLES
    fpc,            \* position of the fetch call: idle, pending, body, done
    requestOptions, \* the options the fetch call was given
    timer,          \* the setTimeout of line 38: none, armed, fired
    elapsed,        \* milliseconds since the fetch call started
    abortFired,     \* abort.abort(...) of line 41 has been called
    callerAborted,  \* a caller-supplied signal has aborted
    requestSignal,  \* the signal the underlying request listens to
    response,       \* what the underlying request produced
    timedOutAt,     \* position of the call when the timer callback ran
    outcome,        \* how the fetch call settled
    tr,             \* the last transformJwkToKeyObject{Sync,Async} call
    vf,             \* the last verifySignature{Sync,Async} call
    codec           \* the last base64url operation

fetchVars == <<fpc, requestOptions, timer, elapsed, abortFired, callerAborted,
               requestSignal, response, timedOutAt, outcome>>
vars == <<fpc, requestOptions, timer, elapsed, abortFired, callerAborted,
          requestSignal, response, timedOutAt, outcome, tr, vf, codec>>

\* Bounds of the model.
MaxElapsed == 3
MaxTimeout == 2
MaxBytes == 3
MaxChars == 4

\* The JavaScript value undefined (an absent property or argument).
Undefined == "undefined"

(***************************************************************************)
(* String primitives.                                                      *)
(***************************************************************************)
startsWith(s, prefix) ==
    Len(s) >= Len(prefix) /\ SubSeq(s, 1, Len(prefix)) = prefix

slice(s, start) == SubSeq(s, start + 1, Len(s))

charAt(s, i) == SubSeq(s, i + 1, i + 1)

(***************************************************************************)
(* Codec: bufferFromBase64url.                                             *)
(***************************************************************************)
Base64urlAlphabet ==
    "ABCDEFGHIJKLMNOPQRSTUVWXYZabcdefghijklmnopqrstuvwxyz0123456789-_"

\* map[chunk.charCodeAt(i)]: the index of the character in the alphabet, or
\* undefined (here -1) for a character outside it or a position past the
\* end of the chunk.
NoIndex == 0 - 1

map(chunk, i) ==
    IF i >= Len(chunk) THEN NoIndex
    ELSE LET c == charAt(chunk, i)
             hits == {k \in 0..(Len(Base64urlAlphabet) - 1) :
                         charAt(Base64urlAlphabet, k) = c}
         IN IF hits = {} THEN NoIndex ELSE CHOOSE k \in hits : TRUE

\* The operand of a bitwise operator: undefined converts to 0.
ToInt32(v) == IF v = NoIndex THEN 0 ELSE v

\* base64url.replace(/={1,2}$/, "")
StripPadding(s) ==
    IF Len(s) >= 2 /\ SubSeq(s, Len(s) - 1, Len(s)) = "=="
    THEN SubSeq(s, 1, Len(s) - 2)
    ELSE IF Len(s) >= 1 /\ SubSeq(s, Len(s), Len(s)) = "="
         THEN SubSeq(s, 1, Len(s) - 1)
         ELSE s

\* base64url.match(/.{1,4}/g): the chunks of up to four characters, or null
\* (here ok = FALSE) when nothing matches, that is for the empty string.
RECURSIVE Chunks(_)
Chunks(s) ==
    IF Len(s) = 0 THEN <<>>
    ELSE IF Len(s) <= 4 THEN <<s>>
         ELSE <<SubSeq(s, 1, 4)>> \o Chunks(SubSeq(s, 5, Len(s)))

MatchChunks(s) ==
    IF Len(s) = 0 THEN [ok |-> FALSE, chunks |-> <<>>]
    ELSE [ok |-> TRUE, chunks |-> Chunks(s)]

\* new Uint8Array((base64url.length * 3) / 4): the length is truncated.
NewUint8Array(len) == [p \in 1..((len * 3) \div 4) |-> 0]

\* acc[pos] = v on a Uint8Array: kept modulo 256, ignored out of bounds.
Store(acc, pos, v) ==
    IF pos < Len(acc) THEN [acc EXCEPT ![pos + 1] = v % 256] ELSE acc

\* The reducer of lines 134-143. The operands of each | have no bit in
\* common (the indexes are below 64), so | is +.
ReduceChunk(acc, chunk, index) ==
    LET first == ToInt32(map(chunk, 0))
        second == ToInt32(map(chunk, 1))
        third == ToInt32(map(chunk, 2))
        fourth == ToInt32(map(chunk, 3))
        a0 == Store(acc, 3 * index, (first * 4) + (second \div 16))
        a1 == Store(a0, 3 * index + 1, ((second % 16) * 16) + (third \div 4))
    IN Store(a1, 3 * index + 2, ((third % 4) * 64) + fourth)

RECURSIVE ReduceChunks(_, _, _)
ReduceChunks(acc, chunks, index) ==
    IF index >= Len(chunks) THEN acc
    ELSE ReduceChunks(ReduceChunk(acc, chunks[index + 1], index), chunks,
                      index + 1)

\* bufferFromBase64url: the bytes, or the TypeError of calling reduce on
\* the null that match returns.
bufferFromBase64url(base64url) ==
    LET stripped == StripPadding(base64url)
        m == MatchChunks(stripped)
    IN IF ~m.ok THEN [ok |-> FALSE, error |-> "TypeError", bytes |-> <<>>]
       ELSE [ok |-> TRUE, error |-> "none",
             bytes |-> ReduceChunks(NewUint8Array(Len(stripped)), m.chunks, 0)]

\* Buffer.from(bytes).toString("base64url"): RFC 4648 section 5, unpadded.
Sextet(k) == charAt(Base64urlAlphabet, k)

RECURSIVE toBase64url(_)
toBase64url(bytes) ==
    IF Len(bytes) = 0 THEN ""
    ELSE IF Len(bytes) = 1
         THEN Sextet(bytes[1] \div 4) \o Sextet((bytes[1] % 4) * 16)
    ELSE IF Len(bytes) = 2
         THEN Sextet(bytes[1] \div 4)
              \o Sextet(((bytes[1] % 4) * 16) + (bytes[2] \div 16))
              \o Sextet((bytes[2] % 16) * 4)
    ELSE Sextet(bytes[1] \div 4)
         \o Sextet(((bytes[1] % 4) * 16) + (bytes[2] \div 16))
         \o Sextet(((bytes[2] % 16) * 4) + (bytes[3] \div 64))
         \o Sextet(bytes[3] % 64)
         \o toBase64url(SubSeq(bytes, 4, Len(bytes)))

\* Inputs of the codec: byte sequences and strings of bounded length.
ByteSamples == {0, 77, 97, 251, 255}
CharSamples == {"A", "Q", "_", "/", "=", "!"}

RECURSIVE ByteSeqs(_)
ByteSeqs(n) ==
    IF n = 0 THEN {<<>>}
    ELSE LET shorter == ByteSeqs(n - 1)
         IN shorter \cup {Append(b, x) : b \in shorter, x \in ByteSamples}

RECURSIVE Strings(_)
Strings(n) ==
    IF n = 0 THEN {""}
    ELSE LET shorter == Strings(n - 1)
         IN shorter \cup {s \o c : s \in shorter, c \in CharSamples}

IdleCodec == [op |-> "idle", input |-> "", bytes |-> <<>>,
              result |-> [ok |-> FALSE, error |-> "none", bytes |-> <<>>]]

(***************************************************************************)
(* Transport: nodeWebCompat.fetch.                                         *)
(***************************************************************************)
Statuses == {200, 201, 204, 304, 404, 500}
TimeoutValues == (0 - 1)..MaxTimeout

\* requestOptions as the caller gives them: responseTimeout and signal may
\* each be absent.
RequestOptions ==
    {o \in [hasResponseTimeout : BOOLEAN, responseTimeout : TimeoutValues,
            hasSignal : BOOLEAN] :
        ~o.hasResponseTimeout => o.responseTimeout = 0}

NoOptions ==
    [hasResponseTimeout |-> FALSE, responseTimeout |-> 0, hasSignal |-> FALSE]

NoResponse == [kind |-> "none", status |-> 0]

\* Number(requestOptions?.["responseTimeout"]): NaN for an absent value.
Number(opts) ==
    IF opts.hasResponseTimeout
    THEN [nan |-> FALSE, n |-> opts.responseTimeout]
    ELSE [nan |-> TRUE, n |-> 0]

\* if (responseTimeout): NaN and 0 are falsy.
Truthy(num) == ~num.nan /\ num.n # 0

\* { signal: abort.signal, ...requestOptions }: a signal among the
\* caller's options overwrites the one of the AbortController.
SpreadSignal(opts) == IF opts.hasSignal THEN "caller" ELSE "internal"

\* The signal of the options handed to the platform's fetch.
SignalOf(opts) ==
    IF Truthy(Number(opts)) THEN SpreadSignal(opts)
    ELSE IF opts.hasSignal THEN "caller" ELSE "none"

\* setTimeout clamps a negative delay to 0.
TimerDelay(opts) ==
    IF opts.responseTimeout < 0 THEN 0 ELSE opts.responseTimeout

\* The underlying request has been aborted through the signal it has.
RequestAborted ==
    \/ requestSignal = "internal" /\ abortFired
    \/ requestSignal = "caller" /\ callerAborted

\* What an aborted request rejects with: the reason given to abort() where
\* the platform passes it on (the FetchError of line 42), an AbortError
\* where it does not. A caller's signal rejects with the caller's reason.
AbortRejections ==
    IF requestSignal = "internal" THEN {"FetchError", "AbortError"}
    ELSE {"AbortError"}

\* .catch((err) => { throw new FetchError(uri, err.message) })
CatchHandler(err) == "FetchError"

\* A status check that only takes 4xx and 5xx for failures.
StatusIsError(status) == status >= 400

\* response.status !== 200
StatusIsNot200(status) == status # 200

IdleTr ==
    [op |-> "idle", jwk |-> [kty |-> "RSA", crv |-> Undefined, alg |-> Undefined],
     jwtHeaderAlg |-> Undefined, alg |-> Undefined, error |-> "none",
     algIdentifier |-> [form |-> "undefined", name |-> Undefined,
                        hash |-> Undefined, namedCurve |-> Undefined],
     importStarted |-> FALSE, settled |-> FALSE, hasKey |-> FALSE,
     key |-> [name |-> Undefined, hash |-> Undefined, namedCurve |-> Undefined]]

IdleVf ==
    [op |-> "idle", alg |-> Undefined,
     algorithm |-> [name |-> Undefined, hash |-> Undefined],
     signature |-> [b64 |-> "", by |-> [name |-> "nobody", hash |-> Undefined]],
     verifyStarted |-> FALSE, error |-> "none", valid |-> FALSE]

FetchIdle ==
    /\ fpc = "idle"
    /\ requestOptions = NoOptions
    /\ timer = "none"
    /\ elapsed = 0
    /\ abortFired = FALSE
    /\ callerAborted = FALSE
    /\ requestSignal = "none"
    /\ response = NoResponse
    /\ timedOutAt = "never"
    /\ outcome = "none"

\* Nothing has been called yet.
Idle == FetchIdle /\ tr = IdleTr /\ vf = IdleVf /\ codec = IdleCodec

\* fetch(uri, requestOptions, data) up to its first await (lines 35-51).
Fetch ==
    /\ Idle
    /\ \E opts \in RequestOptions :
          /\ requestOptions' = opts
          /\ timer' = IF Truthy(Number(opts)) THEN "armed" ELSE "none"
          /\ requestSignal' = SignalOf(opts)
    /\ fpc' = "pending"
    /\ elapsed' = 0
    /\ abortFired' = FALSE
    /\ callerAborted' = FALSE
    /\ response' = NoResponse
    /\ timedOutAt' = "never"
    /\ outcome' = "none"
    /\ UNCHANGED <<tr, vf, codec>>

\* A millisecond passes.
Tick ==
    /\ fpc # "idle"
    /\ elapsed < MaxElapsed
    /\ elapsed' = elapsed + 1
    /\ UNCHANGED <<fpc, requestOptions, timer, abortFired, callerAborted,
                   requestSignal, response, timedOutAt, outcome, tr, vf, codec>>

\* The timer callback of lines 39-46 runs: abort.abort(new FetchError(...)).
\* The timer is never cleared, so it also runs after the call has settled.
TimerFires ==
    /\ timer = "armed"
    /\ elapsed >= TimerDelay(requestOptions)
    /\ timer' = "fired"
    /\ abortFired' = TRUE
    /\ timedOutAt' = fpc
    /\ UNCHANGED <<fpc, requestOptions, elapsed, callerAborted, requestSignal,
                   response, outcome, tr, vf, codec>>

\* The caller aborts the signal it supplied.
CallerAborts ==
    /\ requestSignal = "caller"
    /\ ~callerAborted
    /\ fpc \in {"pending", "body"}
    /\ callerAborted' = TRUE
    /\ UNCHANGED <<fpc, requestOptions, timer, elapsed, abortFired,
                   requestSignal, response, timedOutAt, outcome, tr, vf, codec>>

\* The underlying fetch rejects with a network error; the catch handler
\* of lines 51-55 runs.
NetworkError ==
    /\ fpc = "pending"
    /\ ~RequestAborted
    /\ response' = [kind |-> "rejected", status |-> 0]
    /\ outcome' = CatchHandler("TypeError")
    /\ fpc' = "done"
    /\ UNCHANGED <<requestOptions, timer, elapsed, abortFired, callerAborted,
                   requestSignal, timedOutAt, tr, vf, codec>>

\* The underlying fetch rejects because its signal aborted.
FetchAborted ==
    /\ fpc = "pending"
    /\ RequestAborted
    /\ \E err \in AbortRejections :
          outcome' = CatchHandler(err)
    /\ response' = [kind |-> "rejected", status |-> 0]
    /\ fpc' = "done"
    /\ UNCHANGED <<requestOptions, timer, elapsed, abortFired, callerAborted,
                   requestSignal, timedOutAt, tr, vf, codec>>

\* The response head arrives (lines 56-62): a status other than 200
\* throws, 200 goes on to read the body.
ResponseArrives ==
    /\ fpc = "pending"
    /\ ~RequestAborted
    /\ \E status \in Statuses :
          /\ response' = [kind |-> "response", status |-> status]
          /\ IF StatusIsNot200(status)
             THEN fpc' = "done" /\ outcome' = "NonRetryableFetchError"
             ELSE fpc' = "body" /\ outcome' = "none"
    /\ UNCHANGED <<requestOptions, timer, elapsed, abortFired, callerAborted,
                   requestSignal, timedOutAt, tr, vf, codec>>

\* response.arrayBuffer() resolves: the call returns the body bytes.
BodyArrives ==
    /\ fpc = "body"
    /\ ~RequestAborted
    /\ outcome' = "bytes"
    /\ fpc' = "done"
    /\ UNCHANGED <<requestOptions, timer, elapsed, abortFired, callerAborted,
                   requestSignal, response, timedOutAt, tr, vf, codec>>

\* response.arrayBuffer() rejects with a network error while the body is
\* read: line 62 returns the promise as it is, so the call rejects with it.
BodyReadFails ==
    /\ fpc = "body"
    /\ ~RequestAborted
    /\ outcome' = "TypeError"
    /\ fpc' = "done"
    /\ UNCHANGED <<requestOptions, timer, elapsed, abortFired, callerAborted,
                   requestSignal, response, timedOutAt, tr, vf, codec>>

\* response.arrayBuffer() rejects because the signal aborted.
BodyReadAborted ==
    /\ fpc = "body"
    /\ RequestAborted
    /\ \E err \in AbortRejections : outcome' = err
    /\ fpc' = "done"
    /\ UNCHANGED <<requestOptions, timer, elapsed, abortFired, callerAborted,
                   requestSignal, response, timedOutAt, tr, vf, codec>>

(***************************************************************************)
(* Key material and signature engine.                                      *)
(***************************************************************************)
\* alg values a JWK or a JWT header may carry: the supported ones, the
\* RSASSA-PSS ones, unknown ones and the empty string.
AlgStrings ==
    {"RS256", "RS384", "RS512", "ES256", "ES384", "ES512", "EdDSA",
     "PS256", "PS384", "PS512", "RS1", "RS999", "ES256K", "HS256", "none", ""}

\* JWKs: RSA keys have no crv, EC and OKP keys name their curve (or lack
\* it, which jwk.crv! lets through).
Jwks ==
    {j \in [kty : {"RSA", "EC", "OKP"},
            crv : {Undefined, "P-256", "P-384", "P-521", "Ed25519", "Ed448"},
            alg : AlgStrings \cup {Undefined}] :
        /\ j.kty = "RSA" => j.crv = Undefined
        /\ j.kty = "EC" => j.crv \in {Undefined, "P-256", "P-384", "P-521"}
        /\ j.kty = "OKP" => j.crv \in {Undefined, "Ed25519", "Ed448"}}

\* The enum with ES512 on a curve named after its digest.
NamedCurvesWebCrypto_P512(alg) ==
    IF alg = "ES256" THEN "P-256"
    ELSE IF alg = "ES384" THEN "P-384"
    ELSE IF alg = "ES512" THEN "P-512"
    ELSE Undefined

\* enum NamedCurvesWebCrypto, indexed by an arbitrary string.
NamedCurvesWebCrypto(alg) ==
    IF alg = "ES256" THEN "P-256"
    ELSE IF alg = "ES384" THEN "P-384"
    ELSE IF alg = "ES512" THEN "P-521"
    ELSE Undefined

\* jwk.alg ?? jwtHeaderAlg
NullishCoalesce(a, b) == IF a # Undefined THEN a ELSE b

\* !alg: undefined and the empty string are falsy.
Falsy(alg) == alg = Undefined \/ alg = ""

NoAlgIdentifier ==
    [form |-> "undefined", name |-> Undefined, hash |-> Undefined,
     namedCurve |-> Undefined]

NoKey == [name |-> Undefined, hash |-> Undefined, namedCurve |-> Undefined]

\* An algorithm identifier that sends PS* down the RS* branch.
AlgIdentifier_PssAsPkcs1(jwk, alg) ==
    IF startsWith(alg, "RS") \/ startsWith(alg, "PS")
    THEN [form |-> "object", name |-> "RSASSA-PKCS1-v1_5",
          hash |-> "SHA-" \o slice(alg, 2), namedCurve |-> Undefined]
    ELSE IF startsWith(alg, "ES")
    THEN [form |-> "object", name |-> "ECDSA", hash |-> Undefined,
          namedCurve |-> NamedCurvesWebCrypto(alg)]
    ELSE IF jwk.crv = Undefined THEN NoAlgIdentifier
    ELSE [form |-> "string", name |-> jwk.crv, hash |-> Undefined,
          namedCurve |-> Undefined]

\* The algorithm identifier of lines 80-92. A string identifier (jwk.crv)
\* names the algorithm; an absent jwk.crv leaves it undefined.
AlgIdentifier(jwk, alg) ==
    IF startsWith(alg, "RS")
    THEN [form |-> "object", name |-> "RSASSA-PKCS1-v1_5",
          hash |-> "SHA-" \o slice(alg, 2), namedCurve |-> Undefined]
    ELSE IF startsWith(alg, "ES")
    THEN [form |-> "object", name |-> "ECDSA", hash |-> Undefined,
          namedCurve |-> NamedCurvesWebCrypto(alg)]
    ELSE IF jwk.crv = Undefined THEN NoAlgIdentifier
    ELSE [form |-> "string", name |-> jwk.crv, hash |-> Undefined,
          namedCurve |-> Undefined]

\* The platform's crypto.subtle, as far as the calls of lines 93-95 and
\* 103-117 depend on it (Web Cryptography API).
WebCryptoHashes == {"SHA-1", "SHA-256", "SHA-384", "SHA-512"}
WebCryptoCurves == {"P-256", "P-384", "P-521"}
WebCryptoEdwards == {"Ed25519", "Ed448"}
WebCryptoNames == {"RSASSA-PKCS1-v1_5", "ECDSA"} \cup WebCryptoEdwards

\* The alg a JWK may carry for a key of the given algorithm.
JwkAlgFor(key) ==
    IF key.name = "RSASSA-PKCS1-v1_5"
    THEN {"RS" \o slice(key.hash, 4)}
    ELSE IF key.name = "ECDSA"
    THEN {a \in {"ES256", "ES384", "ES512"} :
             NamedCurvesWebCrypto(a) = key.namedCurve}
    ELSE {"EdDSA", key.name}

\* crypto.subtle.importKey("jwk", jwk, algIdentifier, false, ["verify"]):
\* the CryptoKey, or the error the promise rejects with.
importKey(jwk, id) ==
    LET key == [name |-> id.name, hash |-> id.hash,
                namedCurve |-> id.namedCurve]
        fail(e) == [ok |-> FALSE, error |-> e, key |-> NoKey]
    IN IF id.form = "undefined" THEN fail("TypeError")
       ELSE IF id.name \notin WebCryptoNames THEN fail("NotSupportedError")
       ELSE IF id.name = "RSASSA-PKCS1-v1_5" /\ id.hash \notin WebCryptoHashes
       THEN fail("NotSupportedError")
       ELSE IF id.name = "ECDSA" /\ id.namedCurve = Undefined
       THEN fail("TypeError")
       ELSE IF id.name = "ECDSA" /\ id.namedCurve \notin WebCryptoCurves
       THEN fail("NotSupportedError")
       ELSE IF id.name = "RSASSA-PKCS1-v1_5" /\ jwk.kty # "RSA"
       THEN fail("DataError")
       ELSE IF id.name = "ECDSA"
               /\ (jwk.kty # "EC" \/ jwk.crv # id.namedCurve)
       THEN fail("DataError")
       ELSE IF id.name \in WebCryptoEdwards
               /\ (jwk.kty # "OKP" \/ jwk.crv # id.name)
       THEN fail("DataError")
       ELSE IF jwk.alg # Undefined /\ jwk.alg \notin JwkAlgFor(key)
       THEN fail("DataError")
       ELSE [ok |-> TRUE, error |-> "none", key |-> key]

\* Signatures: the empty string, a forged one, and the ones the holder of
\* the private key made under a scheme and digest.
SignatureMakers ==
    {[name |-> "nobody", hash |-> Undefined]}
    \cup [name : {"RSASSA-PKCS1-v1_5", "ECDSA"}, hash : WebCryptoHashes]
    \cup [name : WebCryptoEdwards, hash : {Undefined}]

Signatures ==
    {[b64 |-> "", by |-> [name |-> "nobody", hash |-> Undefined]]}
    \cup {[b64 |-> "c2ln", by |-> m] : m \in SignatureMakers}

\* The algorithm parameters of lines 104-113.
VerifyAlgorithm(alg, keyObject) ==
    IF startsWith(alg, "RS")
    THEN [name |-> "RSASSA-PKCS1-v1_5", hash |-> Undefined]
    ELSE IF startsWith(alg, "ES")
    THEN [name |-> "ECDSA", hash |-> "SHA-" \o slice(alg, 2)]
    ELSE [name |-> keyObject.jwk.crv, hash |-> Undefined]

\* crypto.subtle.verify(algorithm, key, signature, data) for a signature
\* over data: the boolean, or the error the promise rejects with.
verify(algorithm, key, signature) ==
    LET fail(e) == [error |-> e, valid |-> FALSE]
    IN IF algorithm.name = Undefined THEN fail("TypeError")
       ELSE IF algorithm.name \notin WebCryptoNames
       THEN fail("NotSupportedError")
       ELSE IF algorithm.name = "ECDSA" /\ algorithm.hash \notin WebCryptoHashes
       THEN fail("NotSupportedError")
       ELSE IF algorithm.name # key.name THEN fail("InvalidAccessError")
       ELSE [error |-> "none",
             valid |-> signature.by =
                 [name |-> key.name,
                  hash |-> IF key.name = "ECDSA" THEN algorithm.hash
                           ELSE key.hash]]

\* A synchronous transformation that imports the key instead of throwing.
TransformJwkToKeyObjectSync_Imports ==
    /\ Idle
    /\ \E jwk \in Jwks, jwtHeaderAlg \in AlgStrings \cup {Undefined} :
          LET alg == NullishCoalesce(jwk.alg, jwtHeaderAlg)
              imported == importKey(jwk, AlgIdentifier(jwk, alg))
          IN /\ ~Falsy(alg)
             /\ tr' = [IdleTr EXCEPT !.op = "sync", !.jwk = jwk,
                                     !.jwtHeaderAlg = jwtHeaderAlg,
                                     !.alg = alg, !.importStarted = TRUE,
                                     !.error = imported.error,
                                     !.settled = TRUE,
                                     !.hasKey = imported.ok,
                                     !.key = imported.key]
    /\ UNCHANGED <<fetchVars, vf, codec>>

\* transformJwkToKeyObjectSync (lines 67-71).
TransformJwkToKeyObjectSync ==
    /\ Idle
    /\ \E jwk \in Jwks, jwtHeaderAlg \in AlgStrings \cup {Undefined} :
          tr' = [IdleTr EXCEPT !.op = "sync", !.jwk = jwk,
                               !.jwtHeaderAlg = jwtHeaderAlg,
                               !.error = "NotSupportedError",
                               !.settled = TRUE]
    /\ UNCHANGED <<fetchVars, vf, codec>>

\* transformJwkToKeyObjectAsync up to the call of importKey (lines 72-94).
TransformJwkToKeyObjectAsync ==
    /\ Idle
    /\ \E jwk \in Jwks, jwtHeaderAlg \in AlgStrings \cup {Undefined} :
          LET alg == NullishCoalesce(jwk.alg, jwtHeaderAlg)
          IN tr' = IF Falsy(alg)
                   THEN [IdleTr EXCEPT !.op = "async", !.jwk = jwk,
                             !.jwtHeaderAlg = jwtHeaderAlg, !.alg = alg,
                             !.error = "JwtInvalidSignatureAlgorithmError",
                             !.settled = TRUE]
                   ELSE [IdleTr EXCEPT !.op = "async", !.jwk = jwk,
                             !.jwtHeaderAlg = jwtHeaderAlg, !.alg = alg,
                             !.algIdentifier = AlgIdentifier(jwk, alg),
                             !.importStarted = TRUE]
    /\ UNCHANGED <<fetchVars, vf, codec>>

\* The importKey promise settles; .then((key) => ({ key, jwk })) (line 95).
ImportKeySettles ==
    /\ tr.op = "async"
    /\ tr.importStarted
    /\ ~tr.settled
    /\ LET imported == importKey(tr.jwk, tr.algIdentifier)
       IN tr' = [tr EXCEPT !.settled = TRUE, !.error = imported.error,
                           !.hasKey = imported.ok, !.key = imported.key]
    /\ UNCHANGED <<fetchVars, vf, codec>>

\* A key object is at hand and no verification has used it yet.
CanVerify == tr.hasKey /\ vf = IdleVf

\* verifySignatureSync (lines 97-101).
VerifySignatureSync ==
    /\ CanVerify
    /\ \E alg \in AlgStrings, signature \in Signatures :
          vf' = [IdleVf EXCEPT !.op = "sync", !.alg = alg,
                               !.signature = signature,
                               !.error = "NotSupportedError"]
    /\ UNCHANGED <<fetchVars, tr, codec>>

\* verifySignatureAsync (lines 102-117) with the key object of the last
\* transformation: the arguments are evaluated in order, then
\* crypto.subtle.verify settles.
VerifySignatureAsync ==
    /\ CanVerify
    /\ \E alg \in AlgStrings, signature \in Signatures :
          LET keyObject == [key |-> tr.key, jwk |-> tr.jwk]
              algorithm == VerifyAlgorithm(alg, keyObject)
              buffer == bufferFromBase64url(signature.b64)
              verified == verify(algorithm, keyObject.key, signature)
          IN vf' = IF ~buffer.ok
                   THEN [IdleVf EXCEPT !.op = "async", !.alg = alg,
                             !.algorithm = algorithm, !.signature = signature,
                             !.error = buffer.error]
                   ELSE [IdleVf EXCEPT !.op = "async", !.alg = alg,
                             !.algorithm = algorithm, !.signature = signature,
                             !.verifyStarted = TRUE, !.error = verified.error,
                             !.valid = verified.valid]
    /\ UNCHANGED <<fetchVars, tr, codec>>

(***************************************************************************)
(* Codec operations.                                                       *)
(***************************************************************************)
\* bufferFromBase64url applied to a string.
BufferFromBase64url ==
    /\ Idle
    /\ \E input \in Strings(MaxChars) :
          codec' = [op |-> "decode", input |-> input, bytes |-> <<>>,
                    result |-> bufferFromBase64url(input)]
    /\ UNCHANGED <<fetchVars, tr, vf>>

\* Bytes encoded as Buffer.toString("base64url") does, then decoded.
RoundTrip ==
    /\ Idle
    /\ \E bytes \in ByteSeqs(MaxBytes) :
          codec' = [op |-> "roundtrip", input |-> toBase64url(bytes),
                    bytes |-> bytes,
                    result |-> bufferFromBase64url(toBase64url(bytes))]
    /\ UNCHANGED <<fetchVars, tr, vf>>

(***************************************************************************)
(* The specification.                                                      *)
(***************************************************************************)
Init ==
    /\ FetchIdle
    /\ tr = IdleTr
    /\ vf = IdleVf
    /\ codec = IdleCodec

Next ==
    \/ Fetch
    \/ Tick
    \/ TimerFires
    \/ CallerAborts
    \/ NetworkError
    \/ FetchAborted
    \/ ResponseArrives
    \/ BodyArrives
    \/ BodyReadFails
    \/ BodyReadAborted
    \/ TransformJwkToKeyObjectSync
    \/ TransformJwkToKeyObjectAsync
    \/ ImportKeySettles
    \/ VerifySignatureSync
    \/ VerifySignatureAsync
    \/ BufferFromBase64url
    \/ RoundTrip

Spec == Init /\ [][Next]_vars

(***************************************************************************)
(* Properties.                                                             *)
(***************************************************************************)
SupportedAlgs ==
    {"RS256", "RS384", "RS512", "ES256", "ES384", "ES512", "EdDSA"}

PssAlgs == {"PS256", "PS384", "PS512"}

TransportErrors == {"FetchError", "NonRetryableFetchError"}

\* C1: a fetch whose underlying request rejects fails with FetchError, one
\* whose response has a status other than 200 fails with
\* NonRetryableFetchError, and body bytes are returned only for status 200.
C1_StatusAndNetworkErrors ==
    /\ (fpc = "done" /\ response.kind = "rejected")
          => outcome = "FetchError"
    /\ (response.kind = "response" /\ response.status # 200)
          => (fpc = "done" /\ outcome = "NonRetryableFetchError")
    /\ outcome = "bytes"
          => (response.kind = "response" /\ response.status = 200)

\* C1 witness: a 404 response has failed the call.
C1_Witness ==
    /\ fpc = "done"
    /\ response = [kind |-> "response", status |-> 404]
    /\ outcome = "NonRetryableFetchError"

\* C2: with a positive responseTimeout, whatever the other options, a call
\* that has not settled when the timeout fires has its underlying request
\* aborted and fails with FetchError.
C2_TimeoutAbortsAndFails ==
    (/\ requestOptions.hasResponseTimeout
     /\ requestOptions.responseTimeout > 0
     /\ timedOutAt \in {"pending", "body"})
        => /\ RequestAborted
           /\ fpc = "done" => outcome = "FetchError"

\* An alg is supplied when it is present and not empty.
Supplies(alg) == alg # Undefined /\ alg # ""

\* C3: the effective algorithm is jwk.alg when the JWK has one and the JWT
\* header's otherwise; the transformation fails with
\* JwtInvalidSignatureAlgorithmError exactly when neither supplies an alg,
\* and then starts no key import.
C3_EffectiveAlgorithm ==
    tr.op = "async" =>
        /\ Supplies(tr.jwk.alg) => tr.alg = tr.jwk.alg
        /\ (~Supplies(tr.jwk.alg) /\ Supplies(tr.jwtHeaderAlg))
              => tr.alg = tr.jwtHeaderAlg
        /\ (tr.error = "JwtInvalidSignatureAlgorithmError")
              <=> (~Supplies(tr.jwk.alg) /\ ~Supplies(tr.jwtHeaderAlg))
        /\ (tr.error = "JwtInvalidSignatureAlgorithmError")
              => ~tr.importStarted

\* C4: the synchronous entry points fail with NotSupportedError for every
\* input, return no key and no boolean, and start no key import, no
\* verification and no other effect.
C4_SyncNotSupported ==
    /\ tr.op = "sync" =>
          /\ tr.error = "NotSupportedError"
          /\ ~tr.importStarted /\ ~tr.hasKey /\ tr.key = NoKey
          /\ vf = IdleVf /\ codec = IdleCodec /\ FetchIdle
    /\ vf.op = "sync" =>
          /\ vf.error = "NotSupportedError"
          /\ ~vf.verifyStarted /\ ~vf.valid
          /\ tr.op = "async" /\ codec = IdleCodec /\ FetchIdle

\* C4 witness: a synchronous verification was asked for with a key at hand
\* and a signature its holder made.
C4_Witness ==
    /\ vf.op = "sync"
    /\ tr.hasKey
    /\ vf.signature.by.name = tr.key.name
    /\ vf.error = "NotSupportedError"

\* The reference mapping of the supported algorithms to import parameters.
ReferenceImportParams(jwk, alg) ==
    LET rsa(h) == [form |-> "object", name |-> "RSASSA-PKCS1-v1_5",
                   hash |-> h, namedCurve |-> Undefined]
        ec(c) == [form |-> "object", name |-> "ECDSA", hash |-> Undefined,
                  namedCurve |-> c]
    IN CASE alg = "RS256" -> rsa("SHA-256")
         [] alg = "RS384" -> rsa("SHA-384")
         [] alg = "RS512" -> rsa("SHA-512")
         [] alg = "ES256" -> ec("P-256")
         [] alg = "ES384" -> ec("P-384")
         [] alg = "ES512" -> ec("P-521")
         [] alg = "EdDSA" ->
               IF jwk.crv = Undefined THEN NoAlgIdentifier
               ELSE [form |-> "string", name |-> jwk.crv,
                     hash |-> Undefined, namedCurve |-> Undefined]

\* The reference mapping of the supported algorithms to verify parameters.
ReferenceVerifyParams(jwk, alg) ==
    CASE alg \in {"RS256", "RS384", "RS512"} ->
             [name |-> "RSASSA-PKCS1-v1_5", hash |-> Undefined]
      [] alg = "ES256" -> [name |-> "ECDSA", hash |-> "SHA-256"]
      [] alg = "ES384" -> [name |-> "ECDSA", hash |-> "SHA-384"]
      [] alg = "ES512" -> [name |-> "ECDSA", hash |-> "SHA-512"]
      [] alg = "EdDSA" -> [name |-> jwk.crv, hash |-> Undefined]

\* C5: for every supported effective algorithm the import parameters equal
\* the reference mapping (RSn: RSASSA-PKCS1-v1_5 with SHA-n; ES256, ES384,
\* ES512: ECDSA on P-256, P-384, P-521; EdDSA: the curve of jwk.crv), and
\* verifySignatureAsync selects the same scheme for the same alg, with
\* SHA-n for ESn.
C5_AlgorithmMapping ==
    /\ (tr.op = "async" /\ tr.importStarted /\ tr.alg \in SupportedAlgs)
          => tr.algIdentifier = ReferenceImportParams(tr.jwk, tr.alg)
    /\ (vf.op = "async" /\ vf.alg \in SupportedAlgs)
          => vf.algorithm = ReferenceVerifyParams(tr.jwk, vf.alg)
    /\ (vf.op = "async" /\ vf.alg \in SupportedAlgs /\ vf.alg = tr.alg)
          => vf.algorithm.name = tr.key.name

\* C5 witness: an ES512 key was imported on P-521 and a signature made
\* with ECDSA and SHA-512 verified under the same alg.
C5_Witness ==
    /\ tr.alg = "ES512"
    /\ tr.hasKey
    /\ tr.key.namedCurve = "P-521"
    /\ vf.op = "async"
    /\ vf.alg = "ES512"
    /\ vf.valid

\* C6 as stated: for PS256, PS384 and PS512 the key is imported and the
\* signature verified with RSASSA-PSS and SHA-256, SHA-384, SHA-512.
C6_PssDispatch ==
    /\ (tr.op = "async" /\ tr.importStarted /\ tr.alg \in PssAlgs)
          => /\ tr.algIdentifier.name = "RSASSA-PSS"
             /\ tr.algIdentifier.hash = "SHA-" \o slice(tr.alg, 2)
    /\ (vf.op = "async" /\ vf.alg \in PssAlgs)
          => vf.algorithm.name = "RSASSA-PSS"

\* C6 amended: for PS256, PS384 and PS512 there is no RSASSA-PSS dispatch:
\* the import is given jwk.crv as its algorithm identifier and the
\* verification the name jwk.crv (the branch that serves EdDSA), so that
\* with an RSA JWK no key is imported and no signature verifies.
C6_PssFallsThrough ==
    /\ (tr.op = "async" /\ tr.importStarted /\ tr.alg \in PssAlgs)
          => /\ tr.algIdentifier.name = tr.jwk.crv
             /\ tr.algIdentifier.hash = Undefined
             /\ tr.algIdentifier.form # "object"
             /\ tr.jwk.kty = "RSA" => ~tr.hasKey
    /\ (vf.op = "async" /\ vf.alg \in PssAlgs)
          => /\ vf.algorithm = [name |-> tr.jwk.crv, hash |-> Undefined]
             /\ tr.jwk.kty = "RSA" => ~vf.valid

\* C6 witness: the import of an RSA JWK under PS256 has been rejected.
C6_Witness ==
    /\ tr.op = "async"
    /\ tr.alg = "PS256"
    /\ tr.jwk.kty = "RSA"
    /\ tr.settled
    /\ tr.error = "TypeError"

\* C7: decoding the unpadded base64url encoding of any byte sequence, the
\* empty one included, yields that byte sequence.
C7_RoundTrip ==
    codec.op = "roundtrip" =>
        /\ codec.result.ok
        /\ codec.result.bytes = codec.bytes

\* A character of the base64url alphabet.
InAlphabet(c) ==
    \E k \in 0..(Len(Base64urlAlphabet) - 1) : charAt(Base64urlAlphabet, k) = c

\* Malformed once at most two trailing = are removed: a character outside
\* the alphabet, or a length of 1 modulo 4.
Malformed(s) ==
    LET body == StripPadding(s)
    IN \/ \E i \in 0..(Len(body) - 1) : ~InAlphabet(charAt(body, i))
       \/ Len(body) % 4 = 1

\* C8: decoding a malformed string fails with InvalidJwt and returns no
\* bytes.
C8_RejectsMalformed ==
    (codec.op = "decode" /\ Malformed(codec.input))
        => (~codec.result.ok /\ codec.result.error = "InvalidJwt")

\* C9: for an effective alg outside the supported ones no key is imported
\* and no signature is accepted.
C9_UnknownAlgFailsClosed ==
    (tr.op = "async" /\ tr.alg \notin SupportedAlgs)
        => (~tr.hasKey /\ ~(vf.op = "async" /\ vf.valid))

\* C10: a fetch that does not return body bytes fails with FetchError or
\* NonRetryableFetchError, whatever the order of network error, response,
\* body read failure and timeout.
C10_OnlyTransportErrors ==
    (fpc = "done" /\ outcome # "bytes") => outcome \in TransportErrors
====
